---- MODULE Spec2Model ----
(***************************************************************************)
(* Model of src/src/App.vue: the dashboard component's data fetch layer    *)
(* (fetchAll, safeFetchJson, the reactive refs it writes) and the pure     *)
(* helper buildDownsampleIndices.                                          *)
(*                                                                         *)
(* fetchAll is an async function: it runs on the single event-loop thread  *)
(* and is suspended at its two awaits (the ping, the Promise.all join).    *)
(* Every stretch of code between two suspension points is one action.      *)
(***************************************************************************)
EXTENDS Integers, Sequences, FiniteSets, TLC

\* Number of fetchAll invocations a behaviour may start (mount + refresh clicks).
MaxInv == 2
\* Largest sequence length / downsample target given to buildDownsampleIndices.
MaxLen == 12
MaxTarget == 6

VARIABLES
  \* --- reactive state (App.vue 92-113) ---
  globalLoading, apiHealthy, lastUpdated,
  cards, timelineRaw, severityRaw, distributionRaw, trendRaw, topDstRaw,
  tableRows, tableLoading,
  \* --- the fetchAll invocations and the requests they sent ---
  nInv, pc, pingResp, batchResp, reqCount, events,
  \* --- history of the invocations (what each one saw and when) ---
  clock, before, overlap, lastDone,
  \* --- buildDownsampleIndices: its arguments, position and result ---
  dsLength, dsTarget, dsPc, indices

stateVars == <<globalLoading, apiHealthy, lastUpdated, cards, timelineRaw,
               severityRaw, distributionRaw, trendRaw, topDstRaw, tableRows,
               tableLoading>>
invVars == <<nInv, pc, pingResp, batchResp, reqCount, events>>
histVars == <<clock, before, overlap, lastDone>>
fetchVars == <<stateVars, invVars, histVars>>
dsVars == <<dsLength, dsTarget, dsPc, indices>>
vars == <<fetchVars, dsVars>>

----------------------------------------------------------------------------
\* Values

Invocations == 1..MaxInv

\* The seven requests of the Promise.all batch, in the order of the array.
DataEndpoints == {"overview", "timeline", "severity", "distribution",
                  "trend", "topDst", "table"}
AllEndpoints == DataEndpoints \cup {"ping"}

\* ref<boolean | null>: the three values of apiHealthy.
Null == "null"
True == "true"
False == "false"

\* ref<Date | null>(null): no date yet.
NoDate == <<>>

\* The status strings a ping response may carry.
StatusStrings == {"ok", "alive", "down"}

\* The ways safeFetchJson rejects: fetch() rejects, res.ok is false, res.json() rejects.
FailKinds == {"transport", "http", "json"}

\* The table response either has a rows field or has none.
TableShapes == {"rows", "norows"}

\* The JSON body returned to invocation i by endpoint e; invocation 0 stands for
\* the literals the refs are constructed with.
Payload(i, e) == [inv |-> i, ep |-> e]

\* table.rows ?? []
Rows(i, shape) == IF shape = "rows" THEN <<Payload(i, "table")>> ELSE <<>>

Charts == <<cards, timelineRaw, severityRaw, distributionRaw, trendRaw, topDstRaw>>

ChartsOf(i) == <<Payload(i, "overview"), Payload(i, "timeline"),
                 Payload(i, "severity"), Payload(i, "distribution"),
                 Payload(i, "trend"), Payload(i, "topDst")>>

InFlight == {i \in Invocations : pc[i] \in {"ping", "batch"}}

----------------------------------------------------------------------------
\* Initial state: the refs as constructed, no invocation started.

FetchInit ==
  /\ globalLoading = TRUE
  /\ apiHealthy = Null
  /\ lastUpdated = NoDate
  /\ cards = Payload(0, "overview")
  /\ timelineRaw = Payload(0, "timeline")
  /\ severityRaw = Payload(0, "severity")
  /\ distributionRaw = Payload(0, "distribution")
  /\ trendRaw = Payload(0, "trend")
  /\ topDstRaw = Payload(0, "topDst")
  /\ tableRows = <<>>
  /\ tableLoading = FALSE
  /\ nInv = 0
  /\ pc = [i \in Invocations |-> "idle"]
  /\ pingResp = [i \in Invocations |-> "none"]
  /\ batchResp = [i \in Invocations |-> "none"]
  /\ reqCount = [i \in Invocations |-> [e \in AllEndpoints |-> 0]]
  /\ events = 0
  /\ clock = 0
  /\ before = [i \in Invocations |-> [charts |-> Charts, lastUpdated |-> NoDate,
                                      tableRows |-> <<>>]]
  /\ overlap = [i \in Invocations |-> {}]
  /\ lastDone = 0

DsIdle ==
  /\ dsLength = 0
  /\ dsTarget = 0
  /\ dsPc = "unused"
  /\ indices = <<>>

----------------------------------------------------------------------------
\* safeFetchJson: fetch(url) is issued when the function is called.
SendRequests(i, eps) ==
  reqCount' = [reqCount EXCEPT ![i] =
                 [e \in AllEndpoints |-> IF e \in eps THEN @[e] + 1 ELSE @[e]]]

\* Variant: only 'ok' counts as healthy.
IsHealthyOkOnly(status) == status = "ok"

\* ping.status === 'ok' || ping.status === 'alive'
IsHealthy(status) == status = "ok" \/ status = "alive"

\* Variant: the catch block marks the API unhealthy but keeps the table.
CatchKeepsTable ==
  /\ apiHealthy' = False
  /\ UNCHANGED tableRows

\* catch (e) { console.error(e); apiHealthy.value = false; tableRows.value = [] }
Catch ==
  /\ apiHealthy' = False
  /\ tableRows' = <<>>

\* finally { globalLoading.value = false; tableLoading.value = false }
Finally ==
  /\ globalLoading' = FALSE
  /\ tableLoading' = FALSE

\* The invocation leaves fetchAll.
Finish(i) ==
  /\ pc' = [pc EXCEPT ![i] = "done"]
  /\ lastDone' = i
  /\ clock' = clock + 1
  /\ UNCHANGED <<nInv, events, before, overlap>>

\* fetchAll up to its first await: the loading flags, then the ping request.
FetchAllStart(i) ==
  /\ pc[i] = "idle"
  /\ globalLoading' = TRUE
  /\ tableLoading' = TRUE
  /\ SendRequests(i, {"ping"})
  /\ pc' = [pc EXCEPT ![i] = "ping"]
  /\ nInv' = nInv + 1
  /\ before' = [before EXCEPT ![i] = [charts |-> Charts,
                                      lastUpdated |-> lastUpdated,
                                      tableRows |-> tableRows]]
  /\ overlap' = [j \in Invocations |->
                   IF j = i THEN InFlight
                   ELSE IF j \in InFlight THEN overlap[j] \cup {i}
                   ELSE overlap[j]]
  /\ clock' = clock + 1
  /\ UNCHANGED <<apiHealthy, lastUpdated, cards, timelineRaw, severityRaw,
                 distributionRaw, trendRaw, topDstRaw, tableRows,
                 pingResp, batchResp, lastDone>>

\* onMounted(fetchAll)
Mount ==
  /\ events = 0
  /\ events' = 1
  /\ FetchAllStart(nInv + 1)
  /\ UNCHANGED dsVars

\* @click="fetchAll" on the two refresh buttons; nothing disables them.
RefreshClick ==
  /\ events >= 1
  /\ nInv < MaxInv
  /\ events' = events + 1
  /\ FetchAllStart(nInv + 1)
  /\ UNCHANGED dsVars

\* The ping resolves with a JSON body: the health flag is set from its status
\* and the seven data requests are issued; fetchAll suspends at Promise.all.
PingResolve(i, status) ==
  /\ pc[i] = "ping"
  /\ pingResp' = [pingResp EXCEPT ![i] = status]
  /\ apiHealthy' = IF IsHealthy(status) THEN True ELSE False
  /\ SendRequests(i, DataEndpoints)
  /\ pc' = [pc EXCEPT ![i] = "batch"]
  /\ clock' = clock + 1
  /\ UNCHANGED <<globalLoading, tableLoading, lastUpdated, cards, timelineRaw,
                 severityRaw, distributionRaw, trendRaw, topDstRaw, tableRows,
                 nInv, batchResp, events, before, overlap, lastDone>>
  /\ UNCHANGED dsVars

\* Variant: a failed ping is retried once before giving up.
PingRejectRetry(i, kind) ==
  /\ pc[i] = "ping"
  /\ IF reqCount[i]["ping"] < 2
       THEN /\ SendRequests(i, {"ping"})
            /\ clock' = clock + 1
            /\ UNCHANGED <<stateVars, nInv, pc, pingResp, batchResp, events,
                           before, overlap, lastDone>>
       ELSE /\ pingResp' = [pingResp EXCEPT ![i] = "error"]
            /\ Catch
            /\ Finally
            /\ Finish(i)
            /\ UNCHANGED <<lastUpdated, cards, timelineRaw, severityRaw,
                           distributionRaw, trendRaw, topDstRaw, batchResp,
                           reqCount>>
  /\ UNCHANGED dsVars

\* The ping rejects (safeFetchJson throws): catch, then finally.
PingReject(i, kind) ==
  /\ pc[i] = "ping"
  /\ pingResp' = [pingResp EXCEPT ![i] = "error"]
  /\ Catch
  /\ Finally
  /\ Finish(i)
  /\ UNCHANGED <<lastUpdated, cards, timelineRaw, severityRaw, distributionRaw,
                 trendRaw, topDstRaw, batchResp, reqCount>>
  /\ UNCHANGED dsVars

\* Variant: a batch that is not the most recently started one is discarded.
BatchResolveDiscardStale(i, shape) ==
  /\ pc[i] = "batch"
  /\ batchResp' = [batchResp EXCEPT ![i] = shape]
  /\ IF i = nInv
       THEN /\ cards' = Payload(i, "overview")
            /\ timelineRaw' = Payload(i, "timeline")
            /\ severityRaw' = Payload(i, "severity")
            /\ distributionRaw' = Payload(i, "distribution")
            /\ trendRaw' = Payload(i, "trend")
            /\ topDstRaw' = Payload(i, "topDst")
            /\ tableRows' = Rows(i, shape)
            /\ lastUpdated' = <<clock + 1>>
       ELSE UNCHANGED <<cards, timelineRaw, severityRaw, distributionRaw,
                        trendRaw, topDstRaw, tableRows, lastUpdated>>
  /\ Finally
  /\ Finish(i)
  /\ UNCHANGED <<apiHealthy, pingResp, reqCount>>
  /\ UNCHANGED dsVars

\* Promise.all resolves (all seven requests succeeded): the swap, then finally.
BatchResolve(i, shape) ==
  /\ pc[i] = "batch"
  /\ batchResp' = [batchResp EXCEPT ![i] = shape]
  /\ cards' = Payload(i, "overview")
  /\ timelineRaw' = Payload(i, "timeline")
  /\ severityRaw' = Payload(i, "severity")
  /\ distributionRaw' = Payload(i, "distribution")
  /\ trendRaw' = Payload(i, "trend")
  /\ topDstRaw' = Payload(i, "topDst")
  /\ tableRows' = Rows(i, shape)
  /\ lastUpdated' = <<clock + 1>>
  /\ Finally
  /\ Finish(i)
  /\ UNCHANGED <<apiHealthy, pingResp, reqCount>>
  /\ UNCHANGED dsVars

\* Variant: the join is Promise.allSettled and the fulfilled results are applied.
BatchRejectPartial(i, e, kind) ==
  /\ pc[i] = "batch"
  /\ batchResp' = [batchResp EXCEPT ![i] = "rejected"]
  /\ cards' = IF e = "overview" THEN cards ELSE Payload(i, "overview")
  /\ timelineRaw' = IF e = "timeline" THEN timelineRaw ELSE Payload(i, "timeline")
  /\ severityRaw' = IF e = "severity" THEN severityRaw ELSE Payload(i, "severity")
  /\ distributionRaw' = IF e = "distribution" THEN distributionRaw
                        ELSE Payload(i, "distribution")
  /\ trendRaw' = IF e = "trend" THEN trendRaw ELSE Payload(i, "trend")
  /\ topDstRaw' = IF e = "topDst" THEN topDstRaw ELSE Payload(i, "topDst")
  /\ Catch
  /\ Finally
  /\ Finish(i)
  /\ UNCHANGED <<lastUpdated, pingResp, reqCount>>
  /\ UNCHANGED dsVars

\* Variant: the loading flags are reset at the end of the try block only, so
\* a rejected batch runs the catch block and nothing after it.
BatchRejectNoFinally(i, e, kind) ==
  /\ pc[i] = "batch"
  /\ batchResp' = [batchResp EXCEPT ![i] = "rejected"]
  /\ Catch
  /\ Finish(i)
  /\ UNCHANGED <<globalLoading, tableLoading, lastUpdated, cards, timelineRaw,
                 severityRaw, distributionRaw, trendRaw, topDstRaw, pingResp,
                 reqCount>>
  /\ UNCHANGED dsVars

\* Promise.all rejects (request e is the first to fail): catch, then finally.
BatchReject(i, e, kind) ==
  /\ pc[i] = "batch"
  /\ batchResp' = [batchResp EXCEPT ![i] = "rejected"]
  /\ Catch
  /\ Finally
  /\ Finish(i)
  /\ UNCHANGED <<lastUpdated, cards, timelineRaw, severityRaw, distributionRaw,
                 trendRaw, topDstRaw, pingResp, reqCount>>
  /\ UNCHANGED dsVars

Init == FetchInit /\ DsIdle

Next ==
  \/ Mount
  \/ RefreshClick
  \/ \E i \in Invocations, status \in StatusStrings : PingResolve(i, status)
  \/ \E i \in Invocations, kind \in FailKinds : PingReject(i, kind)
  \/ \E i \in Invocations, shape \in TableShapes : BatchResolve(i, shape)
  \/ \E i \in Invocations, e \in DataEndpoints, kind \in FailKinds : BatchReject(i, e, kind)

Spec == Init /\ [][Next]_vars

\* The continuation of invocation i after its ping request settles, and after
\* its Promise.all settles.
PingSettle(i) ==
  \/ \E status \in StatusStrings : PingResolve(i, status)
  \/ \E kind \in FailKinds : PingReject(i, kind)

BatchSettle(i) ==
  \/ \E shape \in TableShapes : BatchResolve(i, shape)
  \/ \E e \in DataEndpoints, kind \in FailKinds : BatchReject(i, e, kind)

\* Every issued request eventually resolves or rejects, and the event loop then
\* runs the continuation awaiting it.
Fairness ==
  \A i \in Invocations : WF_vars(PingSettle(i)) /\ WF_vars(BatchSettle(i))

SpecFair == Init /\ [][Next]_vars /\ Fairness

----------------------------------------------------------------------------
\* buildDownsampleIndices (App.vue 134-147)

\* The value of length / 0 for length > 0 in the code's floating-point
\* arithmetic: it exceeds every length, and so does anything added to it.
Infinity == MaxLen + MaxTarget + 2

\* Variant: Math.floor instead of Math.ceil.
FloorDiv(a, b) == IF b = 0 THEN Infinity ELSE a \div b

\* Math.ceil(a / b) for a > 0, b >= 0.
CeilDiv(a, b) == IF b = 0 THEN Infinity ELSE (a + b - 1) \div b

\* Array.from({ length }, (_, i) => i)
ArrayFromLength(length) == [k \in 1..length |-> k - 1]

\* for (let i = 0; i < length; i += step) indices.push(i)
RECURSIVE PushLoop(_, _, _, _)
PushLoop(i, step, length, acc) ==
  IF i < length
    THEN PushLoop(IF step = Infinity THEN Infinity ELSE i + step, step, length,
                  Append(acc, i))
    ELSE acc

\* Variant: the final index is pushed without looking at the last one.
ForceLastAlways(acc, length) == Append(acc, length - 1)

\* if (indices[indices.length - 1] !== length - 1) indices.push(length - 1)
ForceLast(acc, length) ==
  IF acc[Len(acc)] # length - 1 THEN Append(acc, length - 1) ELSE acc

buildDownsampleIndices(length, target) ==
  IF length <= target
    THEN ArrayFromLength(length)
    ELSE LET step == CeilDiv(length, target)
         IN ForceLast(PushLoop(0, step, length, <<>>), length)

\* The arguments: a sequence length and a target, neither negative.
DsInit ==
  /\ dsLength \in 0..MaxLen
  /\ dsTarget \in 0..MaxTarget
  /\ dsPc = "call"
  /\ indices = <<>>

\* One call of buildDownsampleIndices on the drawn arguments.
DsCall ==
  /\ dsPc = "call"
  /\ indices' = buildDownsampleIndices(dsLength, dsTarget)
  /\ dsPc' = "done"
  /\ UNCHANGED <<dsLength, dsTarget>>
  /\ UNCHANGED fetchVars

InitDs == FetchInit /\ DsInit

NextDs == DsCall

SpecDs == InitDs /\ [][NextDs]_vars

----------------------------------------------------------------------------
\* Vocabulary of the properties

Started(i) == pc[i] # "idle"
Done(i) == pc[i] = "done"

\* No other invocation was in flight at any time between i's start and its end.
Alone(i) == overlap[i] = {}

\* The state fetchAll leaves behind when i has just finished: nothing is in
\* flight and no other invocation has finished since.
JustFinished(i) == Done(i) /\ lastDone = i /\ InFlight = {}

HealthyPing(i) == pingResp[i] \in {"ok", "alive"}
UnhealthyPing(i) == pingResp[i] \in StatusStrings \ {"ok", "alive"}

\* The Promise.all of i resolved (and i ran the swap) / rejected.
BatchOk(i) == batchResp[i] \in TableShapes
BatchFailed(i) == batchResp[i] = "rejected"

Overlapped(i, j) == i # j /\ j \in overlap[i]

----------------------------------------------------------------------------
\* C1: an invocation whose ping carries a status other than "ok"/"alive"
\* requests none of the seven data endpoints, and (run alone) ends with
\* apiHealthy false, tableRows empty and the chart state as it was before.
C1_UnhealthyPingSkipsBatch ==
  \A i \in Invocations :
    UnhealthyPing(i) =>
      /\ \A e \in DataEndpoints : reqCount[i][e] = 0
      /\ (Alone(i) /\ JustFinished(i)) =>
           /\ apiHealthy = False
           /\ tableRows = <<>>
           /\ Charts = before[i].charts

\* C2: an invocation run alone with a healthy ping and a rejected batch ends
\* with apiHealthy false, tableRows empty, both loading flags false, and the
\* six chart refs and lastUpdated exactly as they were before it started.
C2_BatchFailureKeepsCharts ==
  \A i \in Invocations :
    (Alone(i) /\ JustFinished(i) /\ HealthyPing(i) /\ BatchFailed(i)) =>
      /\ apiHealthy = False
      /\ tableRows = <<>>
      /\ globalLoading = FALSE
      /\ tableLoading = FALSE
      /\ Charts = before[i].charts
      /\ lastUpdated = before[i].lastUpdated

\* A failed batch after a successful one: the table that was shown is gone,
\* the charts that were shown are still there.
C2_Witness ==
  \E i \in Invocations :
    /\ Alone(i) /\ JustFinished(i) /\ HealthyPing(i) /\ BatchFailed(i)
    /\ before[i].tableRows # <<>>
    /\ before[i].charts # ChartsOf(0)
    /\ Charts = before[i].charts

\* C3: an invocation run alone with a healthy ping and a resolved batch ends
\* with apiHealthy true, every chart ref and tableRows holding the payload
\* returned to it (tableRows empty when the table body has no rows field),
\* lastUpdated set and both loading flags false.
C3_SuccessPopulatesState ==
  \A i \in Invocations :
    (Alone(i) /\ JustFinished(i) /\ HealthyPing(i) /\ BatchOk(i)) =>
      /\ apiHealthy = True
      /\ Charts = ChartsOf(i)
      /\ tableRows = Rows(i, batchResp[i])
      /\ (batchResp[i] = "norows" => tableRows = <<>>)
      /\ lastUpdated # NoDate
      /\ globalLoading = FALSE
      /\ tableLoading = FALSE

\* Both healthy statuses and both table shapes occur.
C3_Witness ==
  /\ \E i \in Invocations :
       /\ Alone(i) /\ JustFinished(i) /\ BatchOk(i)
       /\ pingResp[i] = "alive" /\ batchResp[i] = "norows"
  /\ \E j \in Invocations :
       /\ Alone(j) /\ Done(j) /\ pingResp[j] = "ok" /\ batchResp[j] = "rows"

\* C6: of two overlapping invocations whose batches both resolved, the one
\* that finished last owns the chart and table state, whichever started
\* first; and a refresh click leaves every in-flight invocation where it was.
C6_StateOfLastFinisher ==
  \A i, j \in Invocations :
    (Overlapped(i, j) /\ Done(i) /\ Done(j) /\ BatchOk(i) /\ BatchOk(j)
       /\ lastDone = j) =>
      /\ Charts = ChartsOf(j)
      /\ tableRows = Rows(j, batchResp[j])

C6_ClickCancelsNothing ==
  \A i \in Invocations :
    (nInv' > nInv /\ pc[i] \in {"ping", "batch"}) =>
      /\ pc'[i] = pc[i]
      /\ reqCount'[i] = reqCount[i]

C6_LastToFinishWins == []C6_StateOfLastFinisher /\ [][C6_ClickCancelsNothing]_vars

\* The invocation started first finishes last, and its payloads are shown.
C6_Witness ==
  \E i, j \in Invocations :
    /\ i < j /\ Overlapped(i, j)
    /\ Done(i) /\ Done(j) /\ BatchOk(i) /\ BatchOk(j)
    /\ lastDone = i
    /\ Charts = ChartsOf(i)

\* C7: whenever an invocation is in flight, globalLoading and tableLoading
\* are both true.
C7_LoadingWhileInFlight ==
  InFlight # {} => (globalLoading = TRUE /\ tableLoading = TRUE)

\* C8: every started invocation has sent exactly one ping and at most one
\* request to each data endpoint, whatever the outcomes, and every request
\* sequence was started by the mount or a refresh click.
C8_NoRetry ==
  /\ \A i \in Invocations :
       /\ reqCount[i]["ping"] = (IF Started(i) THEN 1 ELSE 0)
       /\ \A e \in DataEndpoints : reqCount[i][e] <= 1
       /\ (pingResp[i] = "error" => \A e \in DataEndpoints : reqCount[i][e] = 0)
  /\ nInv = events
  /\ Cardinality({i \in Invocations : Started(i)}) = events

\* A failed ping and a failed batch, each followed by nothing.
C8_Witness ==
  /\ InFlight = {}
  /\ \E i, j \in Invocations :
       /\ Done(i) /\ pingResp[i] = "error"
       /\ Done(j) /\ BatchFailed(j)
       /\ \A e \in AllEndpoints : reqCount[j][e] = 1

C10_HealthAgreesWithLastOutcome ==
  (InFlight = {} /\ lastDone # 0) =>
    /\ (apiHealthy = True) <=> (HealthyPing(lastDone) /\ BatchOk(lastDone))
    /\ tableRows # <<>> => apiHealthy # False

----------------------------------------------------------------------------
\* Properties of buildDownsampleIndices (specification SpecDs)

Contains(seq, x) == \E k \in 1..Len(seq) : seq[k] = x
StrictlyAscending(seq) == \A k \in 1..(Len(seq) - 1) : seq[k] < seq[k + 1]
Range(seq) == {seq[k] : k \in 1..Len(seq)}

\* C4 as stated: for every length L and target T the list has at most T+1
\* elements, is strictly ascending, includes 0, and includes L-1 when L > T.
C4_IndexListShape ==
  dsPc = "done" =>
    /\ Len(indices) <= dsTarget + 1
    /\ StrictlyAscending(indices)
    /\ Contains(indices, 0)
    /\ dsLength > dsTarget => Contains(indices, dsLength - 1)

\* C4 amended: the list is strictly ascending for every L and T and includes
\* L-1 when L > T; it includes 0 when L >= 1 (for L = 0 it is empty); it has
\* at most T+1 elements when T >= 1 (for T = 0 it is [0, L-1] without
\* repetition, at most two elements).
C4_IndexListShapeNonEmpty ==
  dsPc = "done" =>
    /\ StrictlyAscending(indices)
    /\ dsLength > dsTarget => Contains(indices, dsLength - 1)
    /\ dsLength >= 1 => Contains(indices, 0)
    /\ dsLength = 0 => indices = <<>>
    /\ dsTarget >= 1 => Len(indices) <= dsTarget + 1
    /\ dsTarget = 0 => Range(indices) = {0, dsLength - 1} \cap (0..(dsLength - 1))

\* A downsampled list that reaches the bound T+1, the forced last index included.
C4_Witness ==
  /\ dsPc = "done"
  /\ dsTarget >= 1
  /\ dsLength > dsTarget
  /\ Len(indices) = dsTarget + 1
  /\ indices[Len(indices)] = dsLength - 1
  /\ (dsLength - 1) % CeilDiv(dsLength, dsTarget) # 0

\* step = ceil(L / T): the least s with s * T >= L, infinite when there is none.
RefStep(L, T) ==
  IF \E s \in 1..L : s * T >= L
    THEN CHOOSE s \in 1..L : s * T >= L /\ (s - 1) * T < L
    ELSE Infinity

\* The multiples of step below L.
RefMultiples(L, step) == {m \in 0..(L - 1) : m % step = 0}

RefIndices(L, T) ==
  IF L <= T
    THEN [k \in 1..L |-> k - 1]
    ELSE LET step == RefStep(L, T)
             M == RefMultiples(L, step)
             mult == [k \in 1..Cardinality(M) |-> (k - 1) * step]
         IN IF (L - 1) \in M THEN mult ELSE Append(mult, L - 1)

\* C5: the result is [0 .. L-1] when L <= T; when L > T it is the multiples
\* of step = ceil(L / T) below L in ascending order, followed by L-1 exactly
\* when L-1 is not one of them, so that no index appears twice.
C5_MatchesReference ==
  dsPc = "done" =>
    /\ indices = RefIndices(dsLength, dsTarget)
    /\ dsLength <= dsTarget => Range(indices) = 0..(dsLength - 1)
    /\ dsLength > dsTarget =>
         /\ Range(indices) =
              RefMultiples(dsLength, RefStep(dsLength, dsTarget)) \cup {dsLength - 1}
         /\ Len(indices) = Cardinality(Range(indices))

\* The last index is itself a multiple of the step and is not pushed again.
C5_Witness ==
  /\ dsPc = "done"
  /\ dsTarget >= 2
  /\ dsLength > dsTarget
  /\ (dsLength - 1) % RefStep(dsLength, dsTarget) = 0
  /\ Len(indices) >= 3
  /\ indices[Len(indices)] = dsLength - 1

----------------------------------------------------------------------------
\* C11: provided every issued request eventually settles, every started
\* invocation eventually finishes (through finally) whatever its outcome;
\* whenever some invocation has started and none is in flight, globalLoading
\* and tableLoading are both false; and a refresh click is accepted in every
\* state after the mount, so no failure leaves the component stuck.
C11_QuiescentNotLoading ==
  (nInv >= 1 /\ InFlight = {}) => (globalLoading = FALSE /\ tableLoading = FALSE)

C11_RefreshAccepted ==
  (events >= 1 /\ nInv < MaxInv) => ENABLED RefreshClick

C11_EveryInvocationFinishes ==
  /\ \A i \in Invocations : Started(i) ~> Done(i)
  /\ []C11_QuiescentNotLoading
  /\ []C11_RefreshAccepted

\* Every way of failing has happened, one of them while another invocation was
\* in flight, and the component is idle with both flags false.
C11_Witness ==
  /\ InFlight = {}
  /\ globalLoading = FALSE /\ tableLoading = FALSE
  /\ \E i, j \in Invocations :
       /\ Overlapped(i, j)
       /\ Done(i) /\ UnhealthyPing(i) /\ BatchFailed(i)
       /\ Done(j) /\ pingResp[j] = "error"

====
